---- MODULE Spec2Model ----
(***************************************************************************)
(* Model of src/src/main.cpp: the wake cycle of the ESP-12F / ADS1115      *)
(* sensor board.  One wake cycle runs setup() and then loop() once; every  *)
(* path ends in go_to_sleep(), after which the chip restarts from boot     *)
(* with its RAM re-initialised and only /config.json kept.                 *)
(*                                                                         *)
(* The program is sequential: pc is the position in the code.  The         *)
(* environment decides the outcome of each external call (SPIFFS,          *)
(* WiFiManager, PubSubClient, the ADC, ESP.deepSleep) and may drop the     *)
(* broker session between two steps of the program.                        *)
(***************************************************************************)
EXTENDS Integers, Sequences, FiniteSets, TLC

VARIABLES
  pc,               \* position in setup() / loop() / go_to_sleep()
  file,             \* content of /config.json in SPIFFS
  bootFile,         \* content of /config.json when the wake cycle began
  cfg,              \* the globals mqtt_server .. mqtt_topic
  params,           \* values of the five WiFiManagerParameter objects
  shouldSaveConfig, \* the global flag set by saveConfigCallback
  connected,        \* what client.connected() returns
  clientServer,     \* server and port given to client.setServer()
  clientLogin,      \* user and password given to client.connect()
  retries,          \* uint8_t retries of reconnect()
  channel,          \* uint8_t channel of send_ads_data()
  adc_values,       \* int16_t adc_values[4], the part filled so far
  root,             \* the JsonObject root of send_ads_data()
  sleep_time,       \* argument of the running go_to_sleep() call
  \* what happened in the current wake cycle (reset at boot)
  mount,            \* outcome of SPIFFS.begin()
  load,             \* outcome of reading /config.json
  assoc,            \* outcome of wifiManager.autoConnect()
  wopen,            \* outcome of SPIFFS.open("/config.json", "w")
  writes,           \* calls of json.printTo(configFile)
  sends,            \* calls of send_ads_data()
  adcRaw,           \* register values returned by readADC_SingleEnded
  attempts,         \* calls of client.connect()
  accepted,         \* a call of client.connect() returned true
  published,        \* calls of client.publish(), with their arguments
  sleeps            \* durations passed to ESP.deepSleep()

vars == << pc, file, bootFile, cfg, params, shouldSaveConfig, connected,
           clientServer, clientLogin, retries,
           channel, adc_values, root, sleep_time, mount, load, assoc, wopen,
           writes, sends, adcRaw, attempts, accepted, published, sleeps >>

\* the variables of setup(), of send_ads_data(), and the two halves of the
\* record of the wake cycle
setupVars == << cfg, params, shouldSaveConfig >>

loopVars == << connected, retries, channel, adc_values, root >>

clientVars == << clientServer, clientLogin >>

setupHist == << bootFile, mount, load, assoc, wopen, writes >>

loopHist == << sends, adcRaw, attempts, accepted, published >>

----------------------------------------------------------------------------
(* Constants of the program *)

\* a value as a uint32_t holds it: its low 32 bits, by 16-bit halves
Uint32(x) == ((x \div 65536) % 65536) * 65536 + (x % 65536)

LOOP_TIME == 300000000

\* the retry interval taken as a quarter of the cycle
RetryTimeQuarter == Uint32(LOOP_TIME \div 4)

RETRY_TIME == Uint32(LOOP_TIME \div 5)

ReconnectRetries == 5

NumChannels == 4

----------------------------------------------------------------------------
(* Bounds of the model *)

\* how many of AdcSampleList the ADC may return
NumAdcSamples == 2

\* how many of PortalInputList an operator may submit in the portal
NumPortalInputs == 2

\* register values of the ADS1115 (two's complement of -50, -1, -32768 included)
AdcSampleList == << 32767, 65486, 0, 100, 32768, 65535 >>

RawValues == { AdcSampleList[i] : i \in 1..NumAdcSamples }

----------------------------------------------------------------------------
(* The broker configuration and its JSON form *)

DefaultConfig ==
  [ mqtt_server |-> "", mqtt_user |-> "", mqtt_password |-> "",
    mqtt_port |-> "1883", mqtt_topic |-> "" ]

PortalInputList ==
  << [ mqtt_server |-> "broker", mqtt_user |-> "u", mqtt_password |-> "p",
       mqtt_port |-> "1883", mqtt_topic |-> "ads" ],
     [ mqtt_server |-> "10.0.0.2", mqtt_user |-> "", mqtt_password |-> "",
       mqtt_port |-> "8883", mqtt_topic |-> "adc2" ],
     [ mqtt_server |-> "", mqtt_user |-> "u", mqtt_password |-> "p",
       mqtt_port |-> "1883", mqtt_topic |-> "" ] >>

PortalInputs == { PortalInputList[i] : i \in 1..NumPortalInputs }

\* a JSON object is the sequence of its <<key, value>> members
JsonGet(obj, key) ==
  LET hits == { i \in 1..Len(obj) : obj[i][1] = key }
  IN  obj[CHOOSE i \in hits : \A j \in hits : i <= j][2]

JsonHas(obj, key) == \E i \in 1..Len(obj) : obj[i][1] = key

JsonSet(obj, key, val) ==
  IF JsonHas(obj, key)
  THEN [ i \in 1..Len(obj) |->
           IF obj[i][1] = key THEN << key, val >> ELSE obj[i] ]
  ELSE Append(obj, << key, val >>)

\* lines 208-214: the object setup() builds from the globals
ConfigJson(c) ==
  << << "mqtt_server", c.mqtt_server >>, << "mqtt_user", c.mqtt_user >>,
     << "mqtt_password", c.mqtt_password >>, << "mqtt_port", c.mqtt_port >>,
     << "mqtt_topic", c.mqtt_topic >> >>

\* lines 134-138: strcpy of each member into its global
ConfigFromJson(json) ==
  [ mqtt_server |-> JsonGet(json, "mqtt_server"),
    mqtt_user |-> JsonGet(json, "mqtt_user"),
    mqtt_password |-> JsonGet(json, "mqtt_password"),
    mqtt_port |-> JsonGet(json, "mqtt_port"),
    mqtt_topic |-> JsonGet(json, "mqtt_topic") ]

\* /config.json: absent, unparsable (empty or cut short), or a JSON object.
\* The only writer of the file is line 221, so a file that parses holds the
\* five members, with values that came through the portal's fields and fit
\* the globals they are copied into
FileAbsent == [ kind |-> "absent", json |-> << >> ]

FileCorrupt == [ kind |-> "corrupt", json |-> << >> ]

FileJson(c) == [ kind |-> "json", json |-> ConfigJson(c) ]

FileStates ==
  { FileAbsent, FileCorrupt } \cup { FileJson(c) : c \in PortalInputs }

----------------------------------------------------------------------------
(* Conversions of send_ads_data() *)

\* int16_t adc_values[channel] = (uint16_t) readADC_SingleEnded(channel)
ToInt16(u) == IF u % 65536 >= 32768 THEN (u % 65536) - 65536 ELSE u % 65536

Digits == << "0", "1", "2", "3", "4", "5", "6", "7", "8", "9" >>

RECURSIVE UnsignedText(_)
UnsignedText(n) ==
  IF n < 10 THEN << Digits[n + 1] >>
  ELSE UnsignedText(n \div 10) \o << Digits[(n % 10) + 1] >>

\* String(int): the characters of the decimal text, sign first
StringOfInt(v) ==
  IF v < 0 THEN << "-" >> \o UnsignedText(-v) ELSE UnsignedText(v)

\* the value printed as the unsigned register content
ValueTextUnsigned(v) == UnsignedText(v % 65536)

\* (String)adc_values[channel]
ValueText(v) == StringOfInt(v)

\* "channel_" + String(channel)
ChannelKey(ch) == << "channel_" >> \o StringOfInt(ch)

\* root.printTo(data, ...): the characters of the JSON text
RECURSIVE JsonMembers(_)
JsonMembers(obj) ==
  IF obj = << >> THEN << >>
  ELSE << "\"" >> \o obj[1][1] \o << "\"", ":", "\"" >> \o obj[1][2]
       \o << "\"" >>
       \o (IF Len(obj) > 1 THEN << "," >> ELSE << >>)
       \o JsonMembers(Tail(obj))

JsonText(obj) == << "{" >> \o JsonMembers(obj) \o << "}" >>

----------------------------------------------------------------------------
(* The MQTT client *)

\* the character of a text at a place
CharAt(s, i) == SubSeq(s, i, i)

IsDigit(c) == \E d \in 1..10 : Digits[d] = c

RECURSIVE DigitsValue(_, _, _)
DigitsValue(s, i, acc) ==
  IF i > Len(s) \/ ~IsDigit(CharAt(s, i)) THEN acc
  ELSE DigitsValue(s, i + 1,
                   10 * acc + (CHOOSE d \in 0..9 : Digits[d + 1] = CharAt(s, i)))

\* String::toInt(): an optional minus sign and the digits that follow, 0
\* when there are none
ToInt(s) ==
  IF Len(s) > 0 /\ CharAt(s, 1) = "-" THEN 0 - DigitsValue(s, 2, 0)
  ELSE DigitsValue(s, 1, 0)

\* line 231: client.setServer(mqtt_server, String(mqtt_port).toInt()), the
\* port taken as a uint16_t
ServerOf(c) ==
  [ set |-> TRUE, server |-> c.mqtt_server,
    port |-> ToInt(c.mqtt_port) % 65536 ]

\* line 252: client.connect(clientId, mqtt_user, mqtt_password)
LoginOf(c) ==
  [ set |-> TRUE, user |-> c.mqtt_user, password |-> c.mqtt_password ]

\* line 63: the client as constructed
NoServer == [ set |-> FALSE, server |-> "", port |-> 0 ]

NoLogin == [ set |-> FALSE, user |-> "", password |-> "" ]

----------------------------------------------------------------------------
(* State at boot and the initial states *)

\* RAM as the C runtime initialises it (lines 52-59) and an empty record of
\* the wake cycle
Boot ==
  /\ pc' = "setup"
  /\ bootFile' = file
  /\ cfg' = DefaultConfig
  /\ params' = DefaultConfig
  /\ shouldSaveConfig' = FALSE
  /\ connected' = FALSE
  /\ clientServer' = NoServer
  /\ clientLogin' = NoLogin
  /\ retries' = 0
  /\ channel' = 0
  /\ adc_values' = << >>
  /\ root' = << >>
  /\ sleep_time' = 0
  /\ mount' = "none"
  /\ load' = "none"
  /\ assoc' = "none"
  /\ wopen' = "none"
  /\ writes' = 0
  /\ sends' = 0
  /\ adcRaw' = << >>
  /\ attempts' = 0
  /\ accepted' = FALSE
  /\ published' = << >>
  /\ sleeps' = << >>

Init ==
  /\ pc = "setup"
  /\ file \in FileStates
  /\ bootFile = file
  /\ cfg = DefaultConfig
  /\ params = DefaultConfig
  /\ shouldSaveConfig = FALSE
  /\ connected = FALSE
  /\ clientServer = NoServer
  /\ clientLogin = NoLogin
  /\ retries = 0
  /\ channel = 0
  /\ adc_values = << >>
  /\ root = << >>
  /\ sleep_time = 0
  /\ mount = "none"
  /\ load = "none"
  /\ assoc = "none"
  /\ wopen = "none"
  /\ writes = 0
  /\ sends = 0
  /\ adcRaw = << >>
  /\ attempts = 0
  /\ accepted = FALSE
  /\ published = << >>
  /\ sleeps = << >>

----------------------------------------------------------------------------
(* go_to_sleep() *)

\* a call of go_to_sleep(d): control passes to line 237 and, as neither
\* ESP.deepSleep nor ESP.reset gives it back, never returns to the caller
go_to_sleep(d) ==
  /\ pc' = "go_to_sleep"
  /\ sleep_time' = Uint32(d)

\* go_to_sleep() resetting the chip without the deep-sleep request
ResetWithoutSleep ==
  /\ pc = "go_to_sleep"
  /\ pc' = "reset"
  /\ UNCHANGED << clientVars, file, setupVars, loopVars, sleep_time, setupHist,
                  loopHist, sleeps >>

\* line 238: ESP.deepSleep(sleep_time) halts the chip, or fails to
DeepSleep ==
  /\ pc = "go_to_sleep"
  /\ sleeps' = Append(sleeps, sleep_time)
  /\ \E halted \in BOOLEAN : pc' = IF halted THEN "asleep" ELSE "reset"
  /\ UNCHANGED << clientVars, file, setupVars, loopVars, sleep_time, setupHist,
                  loopHist >>

\* lines 239-240: delay(1000); ESP.reset() restarts the chip
Reset ==
  /\ pc = "reset"
  /\ Boot
  /\ UNCHANGED file

\* the deep-sleep timer expires: the chip restarts from boot
Wake ==
  /\ pc = "asleep"
  /\ Boot
  /\ UNCHANGED file

----------------------------------------------------------------------------
(* setup() *)

\* setup() going on to the WiFiManager after a failed mount
MountFailedIgnored == pc' = "portal" /\ UNCHANGED sleep_time

\* line 147: the file system did not mount
MountFailed == go_to_sleep(RETRY_TIME)

\* lines 111-112, 145-148: SPIFFS.begin()
Mount ==
  /\ pc = "setup"
  /\ \E ok \in BOOLEAN :
       /\ mount' = IF ok THEN "ok" ELSE "fail"
       /\ IF ok THEN pc' = "load" /\ UNCHANGED sleep_time ELSE MountFailed
  /\ UNCHANGED << clientVars, file, bootFile, setupVars, loopVars, load, assoc, wopen,
                  writes, loopHist, sleeps >>

\* a config that cannot be read treated as fatal: sleep and retry
LoadSkippedSleeps ==
  /\ cfg' = cfg
  /\ go_to_sleep(RETRY_TIME)

\* lines 113, 117, 131, 140-142: no file, no handle or no parse: the globals
\* are left as they are and setup() goes on
LoadSkipped ==
  /\ cfg' = cfg
  /\ pc' = "portal"
  /\ UNCHANGED sleep_time

\* lines 131-138: the parsed members are copied into the globals
LoadParsed ==
  /\ cfg' = ConfigFromJson(file.json)
  /\ pc' = "portal"
  /\ UNCHANGED sleep_time

\* lines 113-144: read /config.json
LoadConfig ==
  /\ pc = "load"
  /\ \/ /\ file.kind = "absent"
        /\ load' = "absent"
        /\ LoadSkipped
     \/ /\ file.kind # "absent"
        /\ load' = "openfail"
        /\ LoadSkipped
     \/ /\ file.kind = "corrupt"
        /\ load' = "parsefail"
        /\ LoadSkipped
     \/ /\ file.kind = "json"
        /\ load' = "ok"
        /\ LoadParsed
  /\ UNCHANGED << clientVars, file, bootFile, params, shouldSaveConfig, loopVars, mount,
                  assoc, wopen, writes, loopHist, sleeps >>

\* WiFiManagerParameter(id, placeholder, defaultValue, length): the value
\* starts as the first length characters of the default
ParameterValue(default, length) ==
  IF Len(default) <= length THEN default ELSE SubSeq(default, 1, length)

\* the five fields starting empty, the port at its literal default
PortalDefaultsFixed == DefaultConfig

\* lines 165-169: the five fields start from the globals
PortalDefaults ==
  [ mqtt_server |-> ParameterValue(cfg.mqtt_server, 20),
    mqtt_user |-> ParameterValue(cfg.mqtt_user, 20),
    mqtt_password |-> ParameterValue(cfg.mqtt_password, 20),
    mqtt_port |-> ParameterValue(cfg.mqtt_port, 6),
    mqtt_topic |-> ParameterValue(cfg.mqtt_topic, 20) ]

\* lines 152-178: the WiFiManager and its five fields
SetupPortal ==
  /\ pc = "portal"
  /\ params' = PortalDefaults
  /\ pc' = "autoConnect"
  /\ UNCHANGED << clientVars, file, cfg, shouldSaveConfig, loopVars, sleep_time,
                  setupHist, loopHist, sleeps >>

\* lines 92-95
saveConfigCallback == shouldSaveConfig' = TRUE

\* setup() going on after a failed association
AssocFailedIgnored == pc' = "readParams" /\ UNCHANGED sleep_time

\* setup() opening the portal again after a failed association
AssocFailedRetried == pc' = "autoConnect" /\ UNCHANGED sleep_time

\* line 186: autoConnect returned false
AssocFailed == go_to_sleep(RETRY_TIME)

\* line 183: wifiManager.autoConnect().  It joins the stored network; or it
\* opens the portal, where an operator submits the five fields, joins the
\* network given and runs the save callback; or it returns false: the portal
\* timed out, with or without a submission whose network could not be
\* joined, or the network joined after a submission was lost again before
\* autoConnect looked at the link
AutoConnect ==
  /\ pc = "autoConnect"
  /\ \/ /\ assoc' = "ok"
        /\ pc' = "readParams"
        /\ UNCHANGED << params, shouldSaveConfig, sleep_time >>
     \/ /\ \E v \in PortalInputs : params' = v
        /\ saveConfigCallback
        /\ assoc' = "ok"
        /\ pc' = "readParams"
        /\ UNCHANGED sleep_time
     \/ /\ \/ UNCHANGED << params, shouldSaveConfig >>
           \/ /\ \E v \in PortalInputs : params' = v
              /\ \/ UNCHANGED shouldSaveConfig
                 \/ saveConfigCallback
        /\ assoc' = "timeout"
        /\ AssocFailed
  /\ UNCHANGED << clientVars, file, bootFile, cfg, loopVars, mount, load, wopen, writes,
                  loopHist, sleeps >>

\* lines 193-197: the fields of the portal are copied into the globals
ReadParams ==
  /\ pc = "readParams"
  /\ cfg' = params
  /\ pc' = "save"
  /\ UNCHANGED << clientVars, file, params, shouldSaveConfig, loopVars, sleep_time,
                  setupHist, loopHist, sleeps >>

\* the config saved at every boot
SaveAlways == TRUE

\* line 206
SaveWanted == shouldSaveConfig

\* setup() going on to the client set-up after a failed open
SaveOpenFailedIgnored == pc' = "setupClient" /\ UNCHANGED sleep_time

\* line 219: /config.json could not be opened for writing
SaveOpenFailed == go_to_sleep(RETRY_TIME)

\* lines 206-220: SPIFFS.open("/config.json", "w") empties the file
SaveConfig ==
  /\ pc = "save"
  /\ IF SaveWanted
     THEN \E opened \in BOOLEAN :
            IF opened
            THEN /\ wopen' = "ok"
                 /\ file' = FileCorrupt
                 /\ pc' = "saveWrite"
                 /\ UNCHANGED sleep_time
            ELSE /\ wopen' = "fail"
                 /\ SaveOpenFailed
                 /\ UNCHANGED file
     ELSE /\ pc' = "setupClient"
          /\ UNCHANGED << file, wopen, sleep_time >>
  /\ UNCHANGED << clientVars, bootFile, setupVars, loopVars, mount, load, assoc, writes,
                  loopHist, sleeps >>

\* lines 221-222: json.printTo(configFile) writes the object, or part of it
\* when the flash takes no more (the result is not looked at)
WriteConfig ==
  /\ pc = "saveWrite"
  /\ \E whole \in BOOLEAN :
       file' = IF whole THEN FileJson(cfg) ELSE FileCorrupt
  /\ writes' = writes + 1
  /\ pc' = "setupClient"
  /\ UNCHANGED << clientVars, bootFile, setupVars, loopVars, sleep_time, mount, load,
                  assoc, wopen, loopHist, sleeps >>

\* lines 230-233: the client is given the server; setup() returns and the
\* framework calls loop()
SetupClient ==
  /\ pc = "setupClient"
  /\ clientServer' = ServerOf(cfg)
  /\ pc' = "loop"
  /\ UNCHANGED << clientLogin, file, setupVars, loopVars, sleep_time, setupHist, loopHist,
                  sleeps >>

----------------------------------------------------------------------------
(* loop(), send_ads_data() and reconnect() *)

\* lines 304-305, 263-269: loop() calls send_ads_data()
Loop ==
  /\ pc = "loop"
  /\ sends' = sends + 1
  /\ channel' = 0
  /\ adc_values' = << >>
  /\ root' = << >>
  /\ pc' = "readAdc"
  /\ UNCHANGED << clientVars, file, setupVars, connected, retries, sleep_time, setupHist,
                  adcRaw, attempts, accepted, published, sleeps >>

\* lines 271-277: one pass of the for loop, or its end: reconnect() is
\* entered with retries = 5 (line 244)
ReadAdc ==
  /\ pc = "readAdc"
  /\ IF channel < NumChannels
     THEN \E u \in RawValues :
            /\ adcRaw' = Append(adcRaw, u)
            /\ adc_values' = Append(adc_values, ToInt16(u))
            /\ root' = JsonSet(root, ChannelKey(channel),
                               ValueText(ToInt16(u)))
            /\ channel' = (channel + 1) % 256
            /\ UNCHANGED << pc, retries >>
     ELSE /\ pc' = "reconnect"
          /\ retries' = ReconnectRetries
          /\ UNCHANGED << adcRaw, adc_values, root, channel >>
  /\ UNCHANGED << clientVars, file, setupVars, connected, sleep_time, setupHist, sends,
                  attempts, accepted, published, sleeps >>

\* the loop test with a pre-decrement: while (!client.connected() && --retries)
ReconnectTestPreDecrement ==
  IF connected
  THEN pc' = "checkConnected" /\ UNCHANGED retries
  ELSE /\ retries' = (retries + 255) % 256
       /\ pc' = IF retries' # 0 THEN "connect" ELSE "checkConnected"

\* line 246: while (!client.connected() && retries--), the right operand
\* evaluated (and retries decremented, modulo 256) only when the left holds
ReconnectTest ==
  IF connected
  THEN pc' = "checkConnected" /\ UNCHANGED retries
  ELSE /\ retries' = (retries + 255) % 256
       /\ pc' = IF retries # 0 THEN "connect" ELSE "checkConnected"

\* line 246
Reconnect ==
  /\ pc = "reconnect"
  /\ ReconnectTest
  /\ UNCHANGED << clientVars, file, setupVars, connected, channel, adc_values, root,
                  sleep_time, setupHist, loopHist, sleeps >>

\* lines 247-259: client.connect() and, when it fails, delay(5000)
Connect ==
  /\ pc = "connect"
  /\ \E ok \in BOOLEAN :
       /\ connected' = ok
       /\ accepted' = (accepted \/ ok)
  /\ attempts' = attempts + 1
  /\ clientLogin' = LoginOf(cfg)
  /\ pc' = "reconnect"
  /\ UNCHANGED << clientServer, file, setupVars, retries, channel, adc_values,
                  root, sleep_time, setupHist, sends, adcRaw, published, sleeps >>

\* the full cycle slept after a failed connection
ConnectFailedFullCycle == go_to_sleep(LOOP_TIME)

\* send_ads_data() going on to publish without looking at the client
ConnectFailedIgnored == pc' = "clientLoop" /\ UNCHANGED sleep_time

\* line 287: the client is not connected after reconnect()
ConnectFailed == go_to_sleep(RETRY_TIME)

\* lines 285-288
CheckConnected ==
  /\ pc = "checkConnected"
  /\ IF ~connected
     THEN ConnectFailed
     ELSE pc' = "clientLoop" /\ UNCHANGED sleep_time
  /\ UNCHANGED << clientVars, file, setupVars, loopVars, setupHist, loopHist, sleeps >>

\* line 290: client.loop()
ClientLoop ==
  /\ pc = "clientLoop"
  /\ pc' = "publish"
  /\ UNCHANGED << clientVars, file, setupVars, loopVars, sleep_time, setupHist, loopHist,
                  sleeps >>

\* line 294: the arguments of client.publish(mqtt_topic, data, true)
PublishCall ==
  [ topic |-> cfg.mqtt_topic, payload |-> JsonText(root), retain |-> TRUE,
    session |-> connected ]

\* lines 292-297: the text of root is published; send_ads_data() returns
Publish ==
  /\ pc = "publish"
  /\ published' = Append(published, PublishCall)
  /\ pc' = "sent"
  /\ UNCHANGED << clientVars, file, setupVars, loopVars, sleep_time, setupHist, sends,
                  adcRaw, attempts, accepted, sleeps >>

\* loop() without its sleep request: it returns and the framework calls it
\* again
AfterSendReturns == pc' = "loop" /\ UNCHANGED sleep_time

\* loop() asking for the short sleep after the publish
AfterSendShortSleep == go_to_sleep(RETRY_TIME)

\* line 306: what loop() does once send_ads_data() has returned
AfterSend == go_to_sleep(LOOP_TIME)

\* lines 305-306
LoopSleep ==
  /\ pc = "sent"
  /\ AfterSend
  /\ UNCHANGED << clientVars, file, setupVars, loopVars, setupHist, loopHist, sleeps >>

\* the broker or the network ends the session: client.connected() turns
\* false.  It can happen at any time; only the steps up to the publish call
\* read it
Drop ==
  /\ pc \in { "reconnect", "checkConnected", "clientLoop", "publish" }
  /\ connected
  /\ connected' = FALSE
  /\ UNCHANGED << clientVars, pc, file, setupVars, retries, channel, adc_values, root,
                  sleep_time, setupHist, loopHist, sleeps >>

----------------------------------------------------------------------------
(* The specifications *)

Next ==
  \/ Mount
  \/ LoadConfig
  \/ SetupPortal
  \/ AutoConnect
  \/ ReadParams
  \/ SaveConfig
  \/ WriteConfig
  \/ SetupClient
  \/ Loop
  \/ ReadAdc
  \/ Reconnect
  \/ Connect
  \/ CheckConnected
  \/ ClientLoop
  \/ Publish
  \/ LoopSleep
  \/ DeepSleep
  \/ Reset
  \/ Wake
  \/ Drop

Spec == Init /\ [][Next]_vars

\* every call of the program returns and the sleep timer expires: each step
\* that can be taken is taken
FairSpec == Spec /\ WF_vars(Next)

----------------------------------------------------------------------------
(* Properties of the wake cycle *)

\* a deep-sleep request has been issued: the wake cycle is over
CycleOver == pc \in { "asleep", "reset" }

\* go_to_sleep() has been called
Sleeping == pc \in { "go_to_sleep", "asleep", "reset" }

\* every sleep requested in this wake cycle, pending or issued, is for d
OnlySleepsFor(d) ==
  /\ Sleeping => sleep_time = d
  /\ \A i \in 1..Len(sleeps) : sleeps[i] = d
  /\ Len(sleeps) <= 1

\* C1: in a wake cycle send_ads_data() is called at most once and
\* client.publish() at most once, whatever the outcomes of the external calls.
AtMostOnePublish ==
  /\ sends <= 1
  /\ Len(published) <= 1
  /\ Len(adcRaw) <= NumChannels

\* a wake cycle that published and went to sleep
PublishedOnceThenSlept ==
  /\ pc = "asleep"
  /\ sends = 1
  /\ Len(published) = 1

\* C2: when autoConnect fails, the only sleep requested is for RETRY_TIME
\* (which is not LOOP_TIME), and the cycle opens no config file for writing,
\* writes nothing, attempts no broker connection, samples and publishes nothing.
AssocTimeoutSleepsRetry ==
  assoc = "timeout" =>
    /\ Sleeping
    /\ OnlySleepsFor(RETRY_TIME)
    /\ RETRY_TIME # LOOP_TIME
    /\ wopen = "none" /\ writes = 0 /\ file = bootFile
    /\ attempts = 0 /\ sends = 0 /\ published = << >>

\* an association that timed out after a submission, and the sleep request
AssocTimedOutAndSlept ==
  /\ assoc = "timeout"
  /\ params # cfg
  /\ sleeps = << RETRY_TIME >>

\* C3: when all 5 connection attempts of a wake cycle have failed, the client
\* is not connected, nothing is published and the only sleep requested is for
\* RETRY_TIME, never for LOOP_TIME.
BrokerExhaustedSleepsRetry ==
  (attempts = ReconnectRetries /\ ~accepted) =>
    /\ ~connected
    /\ published = << >>
    /\ pc \notin { "clientLoop", "publish", "sent" }
    /\ OnlySleepsFor(RETRY_TIME)
    /\ RETRY_TIME # LOOP_TIME

\* five failed attempts, and the sleep request
BrokerExhaustedAndSlept ==
  /\ attempts = ReconnectRetries
  /\ ~accepted
  /\ sleeps = << RETRY_TIME >>

PublishOnlyWhenConnected ==
  /\ \A i \in 1..Len(published) : published[i].session
  /\ (Sleeping /\ sends = 1 /\ published = << >>) => sleep_time = RETRY_TIME

\* C6, as stated: a wake cycle in which all 5 connection attempts failed ends
\* with a deep sleep for LOOP_TIME and no publish.
PersistentDisconnectSleepsFullCycle ==
  (CycleOver /\ attempts = ReconnectRetries /\ ~accepted) =>
    /\ sleeps = << LOOP_TIME >>
    /\ published = << >>

\* C6, amended: a wake cycle in which all 5 connection attempts failed ends
\* with one deep sleep request, for RETRY_TIME, and no publish.
PersistentDisconnectSleepsRetry ==
  (CycleOver /\ attempts = ReconnectRetries /\ ~accepted) =>
    /\ sleeps = << RETRY_TIME >>
    /\ published = << >>

\* a cycle of five failed attempts has ended in deep sleep
PersistentDisconnectAsleep ==
  /\ pc = "asleep"
  /\ attempts = ReconnectRetries
  /\ ~accepted
  /\ adcRaw # << >>

\* C7: every wake cycle comes to a deep-sleep request, whatever the external
\* calls return, provided each of them returns.
EveryCycleSleeps == (pc = "setup") ~> (sleeps # << >>)

\* a cycle whose config was unreadable and whose save failed has requested
\* its sleep
FailedSaveCycleSlept ==
  /\ load = "parsefail"
  /\ wopen = "fail"
  /\ sleeps # << >>

\* C8: with the file system mounted and /config.json absent, not opened or
\* not parsed, setup() goes on to the network association without a sleep
\* request, the config being the defaults: port "1883", the rest empty.
ConfigLoadFailureKeepsDefaults ==
  load \in { "absent", "openfail", "parsefail" } =>
    /\ mount = "ok"
    /\ assoc = "none" =>
         /\ pc \in { "portal", "autoConnect" }
         /\ sleeps = << >>
         /\ file = bootFile
         /\ cfg = [ mqtt_server |-> "", mqtt_user |-> "", mqtt_password |-> "",
                    mqtt_port |-> "1883", mqtt_topic |-> "" ]
    /\ pc = "autoConnect" => params = cfg

\* the portal is reached after a config file that did not parse
PortalAfterParseFailure ==
  /\ load = "parsefail"
  /\ pc = "autoConnect"
  /\ cfg.mqtt_port = "1883"

\* C9, as stated: the config file is written in a wake cycle exactly when the
\* save callback ran and the association succeeded, then once; without the
\* callback the flash is not touched.
ConfigWrittenIffSignalled ==
  /\ writes <= 1
  /\ CycleOver => ((writes = 1) <=> (shouldSaveConfig /\ assoc = "ok"))
  /\ ~shouldSaveConfig => (wopen = "none" /\ writes = 0 /\ file = bootFile)

\* C9, amended: the config file is written in a wake cycle exactly when the
\* save callback ran, the association succeeded and the file could be opened
\* for writing, then once; without the callback the flash is not touched.
ConfigWrittenIffSignalledAndOpened ==
  /\ writes <= 1
  /\ CycleOver =>
       ((writes = 1) <=> (shouldSaveConfig /\ assoc = "ok" /\ wopen = "ok"))
  /\ ~shouldSaveConfig => (wopen = "none" /\ writes = 0 /\ file = bootFile)

\* a cycle that saved the submitted config and ended
ConfigSavedOnce ==
  /\ CycleOver
  /\ shouldSaveConfig
  /\ writes = 1
  /\ file # bootFile

\* the signed 16-bit value a register content stands for
TwosComplement16(u) == u - 65536 * (u \div 32768)

DigitValue(c) == CHOOSE d \in 0..9 : Digits[d + 1] = c

RECURSIVE DecimalValue(_)
DecimalValue(s) ==
  IF Len(s) = 1 THEN DigitValue(s[1])
  ELSE 10 * DecimalValue(SubSeq(s, 1, Len(s) - 1)) + DigitValue(s[Len(s)])

\* s is the decimal text of v: an optional minus sign, then digits without
\* leading zeros
IsDecimalOf(s, v) ==
  LET neg  == s # << >> /\ s[1] = "-"
      body == IF neg THEN Tail(s) ELSE s
  IN  /\ body # << >>
      /\ \A i \in 1..Len(body) : \E d \in 1..10 : Digits[d] = body[i]
      /\ Len(body) > 1 => body[1] # "0"
      /\ neg => v < 0
      /\ DecimalValue(body) = IF neg THEN -v ELSE v

\* the pieces of a text between its double quotes
RECURSIVE QuoteSplit(_)
QuoteSplit(s) ==
  IF \A i \in 1..Len(s) : s[i] # "\""
  THEN << s >>
  ELSE LET k == CHOOSE i \in 1..Len(s) :
                  s[i] = "\"" /\ \A j \in 1..(i - 1) : s[j] # "\""
       IN  << SubSeq(s, 1, k - 1) >> \o QuoteSplit(SubSeq(s, k + 1, Len(s)))

\* C10: every published payload is the JSON text
\* {"channel_0":"v0","channel_1":"v1","channel_2":"v2","channel_3":"v3"}
\* where vN is the decimal text of the signed 16-bit value read from channel
\* N; it is published to the configured topic with the retain flag set.
PayloadCarriesRawValues ==
  \A i \in 1..Len(published) :
    LET m    == published[i]
        segs == QuoteSplit(m.payload)
    IN  /\ Len(adcRaw) = NumChannels
        /\ Len(segs) = 4 * NumChannels + 1
        /\ segs[1] = << "{" >>
        /\ segs[4 * NumChannels + 1] = << "}" >>
        /\ \A n \in 0..(NumChannels - 1) :
             /\ segs[4 * n + 2] = << "channel_", Digits[n + 1] >>
             /\ segs[4 * n + 3] = << ":" >>
             /\ IsDecimalOf(segs[4 * n + 4], TwosComplement16(adcRaw[n + 1]))
             /\ n < NumChannels - 1 => segs[4 * n + 5] = << "," >>
        /\ m.retain = TRUE
        /\ m.topic = params.mqtt_topic
        /\ (load = "ok" /\ ~shouldSaveConfig) =>
             m.topic = JsonGet(bootFile.json, "mqtt_topic")

\* a payload with a negative and a positive reading has been published under
\* a topic given in the portal
NegativeReadingPublished ==
  /\ Len(published) = 1
  /\ adcRaw[1] = 32767
  /\ adcRaw[2] = 65486
  /\ shouldSaveConfig
  /\ published[1].topic # ""

\* x is a value of a uint32_t: not negative, its upper half below 2^16, and
\* left as it is by the conversion
FitsUint32(x) ==
  /\ x >= 0
  /\ x \div 65536 < 65536
  /\ Uint32(x) = x

\* C11: RETRY_TIME is exactly one fifth of LOOP_TIME, nothing lost in the
\* division, and LOOP_TIME, RETRY_TIME and the argument of every
\* go_to_sleep call and deep-sleep request are one of the two and fit in 32
\* bits unsigned.
RetryIsFifthOfCycle ==
  /\ RETRY_TIME * 5 = LOOP_TIME
  /\ LOOP_TIME % 5 = 0
  /\ FitsUint32(LOOP_TIME)
  /\ FitsUint32(RETRY_TIME)
  /\ Sleeping => (sleep_time \in { LOOP_TIME, RETRY_TIME }
                   /\ FitsUint32(sleep_time))
  /\ \A i \in 1..Len(sleeps) :
       sleeps[i] \in { LOOP_TIME, RETRY_TIME } /\ FitsUint32(sleeps[i])

\* a deep sleep for the full cycle, five retry intervals, has been requested
FullCycleSleepRequested ==
  /\ pc = "reset"
  /\ sleeps = << LOOP_TIME >>
  /\ sleep_time = 5 * RETRY_TIME

\* C12, as stated: the ADC is sampled only after the broker connection has
\* been established in the wake cycle; a cycle whose broker connection fails
\* captures no sample.
SampledOnlyAfterBrokerConnected ==
  /\ adcRaw # << >> => accepted
  /\ (CycleOver /\ ~accepted) => adcRaw = << >>

\* C12, amended: in every wake cycle the steps come in the order config load,
\* network association, conditional config save, sampling of the four
\* channels, broker connection, publish, deep sleep: the sample is complete
\* before the first connection attempt, and a publish follows an accepted
\* connection.
LifecycleOrder ==
  /\ load # "none" => mount = "ok"
  /\ assoc # "none" => load # "none"
  /\ wopen # "none" => (assoc = "ok" /\ pc # "readParams")
  /\ writes > 0 => wopen = "ok"
  /\ sends > 0 => (assoc = "ok" /\ (shouldSaveConfig => writes = 1))
  /\ adcRaw # << >> => sends = 1
  /\ Len(adcRaw) < NumChannels => (attempts = 0 /\ ~connected)
  /\ attempts > 0 => Len(adcRaw) = NumChannels
  /\ published # << >> => (accepted /\ attempts > 0)
  /\ sleeps # << >> => CycleOver

\* a cycle that sampled the four channels, failed to connect and ended
SampledThenConnectionFailed ==
  /\ CycleOver
  /\ Len(adcRaw) = NumChannels
  /\ attempts = ReconnectRetries
  /\ ~accepted
  /\ published = << >>

\* what setup() and loop() read and write, and the record of their steps
lifecycle ==
  << file, setupVars, loopVars, sleep_time, setupHist, loopHist >>

\* the step taken from the entry of go_to_sleep(d) is the request for d
RequestIsFirst ==
  pc = "go_to_sleep" =>
    /\ sleeps' = << sleep_time >>
    /\ pc' \in { "asleep", "reset" }
    /\ UNCHANGED lifecycle

\* after the request the chip only restarts, the config file kept
OnlyRestartFollows ==
  pc \in { "asleep", "reset" } =>
    /\ pc' = "setup"
    /\ sleeps' = << >>
    /\ file' = file

\* the chip restarts only from its sleep or by the reset
RestartOnlyAfterRequest ==
  pc' = "setup" => pc \in { "asleep", "reset" }

\* C13: the first step of go_to_sleep(d) is the deep-sleep request for
\* exactly d; the reset happens only after that request, and only when the
\* request did not halt the chip; control never returns to the caller: from
\* the call on, no step of setup() or loop() runs and no second sleep is
\* requested until the chip has restarted.
SleepNeverReturns ==
  /\ [](Len(sleeps) <= 1)
  /\ [](pc \in { "asleep", "reset" } => sleeps = << sleep_time >>)
  /\ [](pc = "go_to_sleep" => sleeps = << >>)
  /\ [][RequestIsFirst]_vars
  /\ [][OnlyRestartFollows]_vars
  /\ [][RestartOnlyAfterRequest]_vars

\* the reset after a sleep request that did not halt the chip, in a cycle
\* whose config file could not be opened for writing
ResetAfterSleepRequest ==
  /\ pc = "reset"
  /\ wopen = "fail"
  /\ sleeps = << RETRY_TIME >>

\* C14: when SPIFFS.begin() fails, the only sleep requested is for
\* RETRY_TIME and the wake cycle reads no config, sets up no portal and
\* starts no association, opens and writes no config file, samples nothing,
\* attempts no broker connection and publishes nothing.
MountFailureSleepsRetry ==
  mount = "fail" =>
    /\ Sleeping
    /\ OnlySleepsFor(RETRY_TIME)
    /\ load = "none" /\ cfg = DefaultConfig
    /\ assoc = "none" /\ params = DefaultConfig /\ ~shouldSaveConfig
    /\ wopen = "none" /\ writes = 0 /\ file = bootFile
    /\ sends = 0 /\ adcRaw = << >>
    /\ attempts = 0 /\ ~connected
    /\ published = << >>

\* a failed mount over a stored config, and the chip asleep
MountFailedAndAsleep ==
  /\ mount = "fail"
  /\ pc = "asleep"
  /\ file.kind = "json"
  /\ sleeps = << RETRY_TIME >>

\* C15: when the save callback ran but /config.json cannot be opened for
\* writing, the only sleep requested is for RETRY_TIME, the file is left as
\* it was, and the wake cycle samples nothing, attempts no broker connection
\* and publishes nothing.
SaveOpenFailureSleepsRetry ==
  wopen = "fail" =>
    /\ shouldSaveConfig /\ assoc = "ok"
    /\ Sleeping
    /\ OnlySleepsFor(RETRY_TIME)
    /\ writes = 0 /\ file = bootFile
    /\ sends = 0 /\ adcRaw = << >>
    /\ attempts = 0 /\ ~connected
    /\ published = << >>

\* a submitted config that differs from the stored one could not be saved,
\* and the chip is asleep
SaveOpenFailedAndAsleep ==
  /\ wopen = "fail"
  /\ pc = "asleep"
  /\ bootFile.kind = "json"
  /\ ConfigJson(cfg) # bootFile.json
  /\ sleeps = << RETRY_TIME >>

----------------------------------------------------------------------------
(* C16 *)

\* the config the boot loaded: the one in /config.json when it was read and
\* parsed, the literal defaults otherwise
LoadedConfig ==
  IF load = "ok" THEN ConfigFromJson(bootFile.json) ELSE DefaultConfig

\* the config /config.json holds after a save that wrote it whole
PersistedConfig == ConfigFromJson(file.json)

\* the number a port text stands for, as the 16-bit port of the client
PortNumber(text) ==
  DecimalValue([ i \in 1..Len(text) |-> SubSeq(text, i, i) ]) % 65536

\* the server, port, user, password and topic the cycle has used with the
\* broker so far are those of the config c
UsedWithBroker(c) ==
  /\ clientServer.set =>
       /\ clientServer.server = c.mqtt_server
       /\ clientServer.port = PortNumber(c.mqtt_port)
  /\ clientLogin.set =>
       /\ clientLogin.user = c.mqtt_user
       /\ clientLogin.password = c.mqtt_password
  /\ \A i \in 1..Len(published) : published[i].topic = c.mqtt_topic

\* C16: when setup() has returned in a cycle where the network association
\* succeeded and the should-save signal was not raised, the in-memory broker
\* config equals the config loaded at boot and /config.json is as it was at
\* boot; in a cycle that saved the config, the server, port, user, password
\* and topic used with the broker are those of the saved record.
ConfigUnchangedOrPersisted ==
  /\ (clientServer.set /\ assoc = "ok" /\ ~shouldSaveConfig) =>
       /\ cfg = LoadedConfig
       /\ file = bootFile
       /\ writes = 0
       /\ UsedWithBroker(LoadedConfig)
  /\ (writes > 0 /\ file.kind = "json") => UsedWithBroker(PersistedConfig)

\* a cycle that loaded a saved config, associated without the portal, and
\* published to the loaded topic on the loaded server with the loaded login
LoadedConfigUsedUnchanged ==
  /\ load = "ok"
  /\ assoc = "ok"
  /\ ~shouldSaveConfig
  /\ file = bootFile
  /\ cfg = PortalInputList[1]
  /\ clientServer = [ set |-> TRUE, server |-> "broker", port |-> 1883 ]
  /\ clientLogin = [ set |-> TRUE, user |-> "u", password |-> "p" ]
  /\ Len(published) = 1
  /\ published[1].topic = "ads"

----------------------------------------------------------------------------
(* C17 *)

\* a sleep for d is what a cycle asks for exactly when it has called
\* client.publish()
SleepFitsPublish(d) ==
  /\ d \in { LOOP_TIME, RETRY_TIME }
  /\ (d = LOOP_TIME) <=> (published # << >>)
  /\ (published = << >>) => (d = RETRY_TIME)

\* C17: the deep sleep that ends a wake cycle is requested for LOOP_TIME if
\* and only if client.publish() was called in that cycle, whether or not
\* the session was still up at the call; a cycle that ends without a
\* publish call (mount failure, association timeout, config file not
\* opened for writing, broker connection attempts exhausted) sleeps for
\* RETRY_TIME.
SleepIsFullCycleIffPublished ==
  /\ Sleeping => SleepFitsPublish(sleep_time)
  /\ \A i \in 1..Len(sleeps) : SleepFitsPublish(sleeps[i])
  /\ (Sleeping /\ (\/ mount = "fail"
                   \/ assoc = "timeout"
                   \/ wopen = "fail"
                   \/ (attempts > 0 /\ published = << >>)))
       => sleep_time = RETRY_TIME

\* a cycle whose publish call found the session gone, asleep for the full
\* cycle
FailedPublishSleptFullCycle ==
  /\ pc = "asleep"
  /\ Len(published) = 1
  /\ ~published[1].session
  /\ sleeps = << LOOP_TIME >>

====
